---- MODULE Spec2Model ----
(***************************************************************************)
(* Model of the aztecnr documentation generator: the syn-based parser      *)
(* (src/src/parser.rs), the markdown/sidebar generator                     *)
(* (src/src/generator.rs) and the driver (src/src/main.rs).                *)
(*                                                                         *)
(* A Rust String is modelled as a sequence of one-character strings, so    *)
(* that formatting, trimming, splitting and extension handling are         *)
(* computed character by character as the code computes them.              *)
(***************************************************************************)
EXTENDS Integers, Sequences, FiniteSets, TLC

VARIABLES
    doc_comment,    \* parse_doc_comment: the argument
    dc_pc,          \* parse_doc_comment: "input" before the call, "done" after
    description,    \* parse_doc_comment: first component of the result
    params,         \* parse_doc_comment: second component of the result
    item,           \* parser: the syn item handed to the parse_* function
    parsed,         \* parser: None before the call, Some(NoirFunction) after
    dir,            \* driver: the entries of input_dir, in read_dir order
    pc,             \* driver: position in main / generate / write
    run,            \* driver: 1 in the first call of generate_docusaurus_docs,
                    \*         2 in a second call on the unchanged directory
    entry_i,        \* generate_docusaurus_docs: index of the next dir entry
    libraries,      \* generate_docusaurus_docs: the HashMap name -> Library
    iter_order,     \* the order in which this HashMap iterates its keys
    lib_i,          \* generate_docusaurus_docs: position of the second loop
    docs,           \* generate_docusaurus_docs: Vec<DocusaurusDoc>
    sidebar,        \* generate_docusaurus_docs: Vec<SidebarItem>
    first_run,      \* Some(<<docs, sidebar>>) returned by the first call
    disk,           \* files under output_dir: path -> content
    write_i,        \* write_docusaurus_docs: index of the next document
    write_log,      \* write steps that returned Ok, in order
    write_failed,   \* the write step that returned Err, -1 when none did
    status,         \* "running", or how the process ended
    failures,       \* failures that occurred in the run
    reported,       \* failures shown to the user or returned to the caller
    aztec_arg,      \* generate_aztec_docs: the argument
    aztec_out,      \* generate_aztec_docs: None before the call, Some(..) after
    file_arg,       \* generate_file_content: the argument, a NoirFile
    content_out     \* generate_file_content: None before the call, Some(..) after

dcVars == <<doc_comment, dc_pc, description, params>>
psVars == <<item, parsed>>
genVars == <<entry_i, libraries, iter_order, lib_i, docs, sidebar>>
writeVars == <<disk, write_i, write_log, write_failed>>
drVars == <<dir, pc, run, first_run, status, failures, reported>>
azVars == <<aztec_arg, aztec_out>>
gcVars == <<file_arg, content_out>>
vars == <<dcVars, psVars, genVars, writeVars, drVars, azVars, gcVars>>

\* Option<T>
None == <<>>
Some(v) == <<v>>

-----------------------------------------------------------------------------
(* Characters and the std string operations the code uses *)

NL == "\n"
CR == "\r"
SP == " "
TAB == "\t"
\* the backquote character U+0060, which the lexer of the TLA+ tools does not
\* accept inside a string
BT == "backquote"

\* char::is_whitespace restricted to the characters of the model
WhiteSpace == {SP, NL, CR, TAB}

\* the regex class \w restricted to the characters of the model
WordChars ==
    {"a","b","c","d","e","f","g","h","i","j","k","l","m","n","o","p","q","r",
     "s","t","u","v","w","x","y","z","A","B","C","D","E","F","G","H","I","J",
     "K","L","M","N","O","P","Q","R","S","T","U","V","W","X","Y","Z","0","1",
     "2","3","4","5","6","7","8","9","_"}

RECURSIVE Flatten(_)
\* concatenation of a sequence of strings
Flatten(ss) == IF ss = <<>> THEN <<>> ELSE Head(ss) \o Flatten(Tail(ss))

RECURSIVE TrimStart(_)
TrimStart(s) ==
    IF s # <<>> /\ Head(s) \in WhiteSpace THEN TrimStart(Tail(s)) ELSE s

RECURSIVE TrimEnd(_)
TrimEnd(s) ==
    IF s # <<>> /\ s[Len(s)] \in WhiteSpace
    THEN TrimEnd(SubSeq(s, 1, Len(s) - 1)) ELSE s

\* str::trim
Trim(s) == TrimEnd(TrimStart(s))

\* a line that ended in "\n": a "\r" right before it belongs to the terminator
StripCR(line) ==
    IF line # <<>> /\ line[Len(line)] = CR
    THEN SubSeq(line, 1, Len(line) - 1) ELSE line

RECURSIVE LinesFrom(_, _, _, _)
LinesFrom(s, i, cur, acc) ==
    IF i > Len(s) THEN (IF cur = <<>> THEN acc ELSE Append(acc, cur))
    ELSE IF s[i] = NL THEN LinesFrom(s, i + 1, <<>>, Append(acc, StripCR(cur)))
    ELSE LinesFrom(s, i + 1, Append(cur, s[i]), acc)

\* str::lines: split at "\n" or "\r\n"; the last line needs no terminator
Lines(s) == LinesFrom(s, 1, <<>>, <<>>)

\* s has t at position i
HasAt(s, i, t) ==
    /\ i >= 1
    /\ i + Len(t) - 1 <= Len(s)
    /\ SubSeq(s, i, i + Len(t) - 1) = t

\* str::contains
Contains(s, t) == \E i \in 1..(Len(s) + 1) : HasAt(s, i, t)

RECURSIVE JoinFrom(_, _, _)
JoinFrom(ss, i, sep) ==
    IF i > Len(ss) THEN <<>>
    ELSE IF i = Len(ss) THEN ss[i]
    ELSE ss[i] \o sep \o JoinFrom(ss, i + 1, sep)

\* [String]::join
Join(ss, sep) == JoinFrom(ss, 1, sep)

-----------------------------------------------------------------------------
(* parser.rs: extraction of a NoirFunction from a syn signature *)

\* A syn::Attribute is [path, kind, value]: kind is the shape parse_meta
\* finds ("NameValueStr": path = "value", "NameValueOther": path = <literal>,
\* "List": path(value), "Path": path alone, "Invalid": parse_meta fails).

RECURSIVE EscapeLit(_)
\* the escaped body of a string literal token
EscapeLit(s) ==
    IF s = <<>> THEN <<>>
    ELSE (CASE Head(s) = NL -> <<"\\","n">>
            [] Head(s) = CR -> <<"\\","r">>
            [] Head(s) = "\"" -> <<"\\","\"">>
            [] Head(s) = "\\" -> <<"\\","\\">>
            [] OTHER -> <<Head(s)>>) \o EscapeLit(Tail(s))

\* attr.to_token_stream().to_string()
AttrToString(attr) ==
    <<"#"," ","[">> \o attr.path \o
    (CASE attr.kind = "NameValueStr" ->
                <<" ","="," ","\"">> \o EscapeLit(attr.value) \o <<"\"">>
       [] attr.kind = "NameValueOther" -> <<" ","="," ">> \o attr.value
       [] attr.kind = "List" -> <<" ","(">> \o attr.value \o <<")">>
       [] attr.kind = "Invalid" -> <<" ">> \o attr.value
       [] OTHER -> <<>>) \o <<"]">>

\* a type or pattern is its token sequence; to_token_stream().to_string()
\* prints the tokens separated by one space
type_to_string(ty) == Join(ty, <<SP>>)
pat_to_string(pat) == Join(pat, <<SP>>)

RECURSIVE DocValues(_)
\* the filter / filter_map chain of extract_doc_comment: the trimmed value of
\* every #[doc = "..."] attribute, in order
DocValues(attrs) ==
    IF attrs = <<>> THEN <<>>
    ELSE LET attr == Head(attrs)
         IN  (IF attr.path = <<"d","o","c">> /\ attr.kind = "NameValueStr"
              THEN <<Trim(attr.value)>> ELSE <<>>) \o DocValues(Tail(attrs))

\* String::into::<Option<String>>() is Some(..) for every string
extract_doc_comment(attrs) == Some(Join(DocValues(attrs), <<NL>>))

extract_attributes(attrs) == [k \in 1..Len(attrs) |-> AttrToString(attrs[k])]

RECURSIVE TypedParams(_)
\* the filter_map over sig.inputs: FnArg::Typed only, receivers are skipped
TypedParams(inputs) ==
    IF inputs = <<>> THEN <<>>
    ELSE LET arg == Head(inputs)
         IN  (IF arg.typed
              THEN <<[name |-> pat_to_string(arg.pat), ty |-> type_to_string(arg.ty)]>>
              ELSE <<>>) \o TypedParams(Tail(inputs))

Unconstrained == <<"u","n","c","o","n","s","t","r","a","i","n","e","d">>

\* the body shared by parse_function, parse_trait_method, parse_impl_method
FunctionOfSig(attrs, sig) ==
    LET attributes == extract_attributes(attrs)
    IN  [name |-> sig.ident,
         params |-> TypedParams(sig.inputs),
         return_type |-> IF sig.output = None THEN None
                         ELSE Some(type_to_string(sig.output[1])),
         doc_comment |-> extract_doc_comment(attrs),
         attributes |-> attributes,
         generic_params |-> [k \in 1..Len(sig.generics) |->
                                Join(sig.generics[k], <<SP>>)],
         is_unconstrained |->
            sig.constness \/ \E k \in 1..Len(attributes) :
                                Contains(attributes[k], Unconstrained)]

parse_function(f) == FunctionOfSig(f.attrs, f.sig)
parse_trait_method(method) == FunctionOfSig(method.attrs, method.sig)
parse_impl_method(method) == FunctionOfSig(method.attrs, method.sig)

-----------------------------------------------------------------------------
(* generator.rs: parse_doc_comment *)

AtParam == <<"@","p","a","r","a","m">>

RECURSIVE RunEnd(_, _, _)
\* first position >= i of s whose character is not in class (Len(s)+1 if none)
RunEnd(s, i, class) ==
    IF i <= Len(s) /\ s[i] \in class THEN RunEnd(s, i + 1, class) ELSE i

\* param_regex = @param\s+(\w+)\s+(.+) tried at position i of line: the
\* capture groups <<name, text>> of the match, or <<>> when there is none.
\* Every quantifier is greedy; only the second \s+ can give a character back
\* to (.+), when the rest of the line is whitespace.
MatchAt(line, i) ==
    IF ~HasAt(line, i, AtParam) THEN <<>>
    ELSE LET a == i + Len(AtParam)
             b == RunEnd(line, a, WhiteSpace)
             c == RunEnd(line, b, WordChars)
             d == RunEnd(line, c, WhiteSpace)
             n == Len(line)
         IN  IF b = a \/ c = b \/ d = c THEN <<>>
             ELSE IF d <= n THEN <<SubSeq(line, b, c - 1), SubSeq(line, d, n)>>
             ELSE IF d - c >= 2 THEN <<SubSeq(line, b, c - 1), SubSeq(line, n, n)>>
             ELSE <<>>

RECURSIVE CapturesFrom(_, _)
CapturesFrom(line, i) ==
    IF i > Len(line) THEN <<>>
    ELSE IF MatchAt(line, i) # <<>> THEN MatchAt(line, i)
    ELSE CapturesFrom(line, i + 1)

\* Regex::captures: the leftmost match
Captures(line) == CapturesFrom(line, 1)

RECURSIVE ParseDocLines(_, _, _, _)
ParseDocLines(ls, i, desc, ps) ==
    IF i > Len(ls) THEN <<Trim(desc), ps>>
    ELSE LET cap == Captures(ls[i])
         IN  IF cap # <<>>
             THEN ParseDocLines(ls, i + 1, desc, Append(ps, <<cap[1], <<>>, cap[2]>>))
             ELSE ParseDocLines(ls, i + 1, desc \o ls[i] \o <<NL>>, ps)

RECURSIVE ParseDocLines_no_newline(_, _, _, _)
\* ParseDocLines without description.push('\n')
ParseDocLines_no_newline(ls, i, desc, ps) ==
    IF i > Len(ls) THEN <<Trim(desc), ps>>
    ELSE LET cap == Captures(ls[i])
         IN  IF cap # <<>>
             THEN ParseDocLines_no_newline(ls, i + 1, desc,
                                           Append(ps, <<cap[1], <<>>, cap[2]>>))
             ELSE ParseDocLines_no_newline(ls, i + 1, desc \o ls[i], ps)

parse_doc_comment_no_newline(dc) ==
    ParseDocLines_no_newline(Lines(dc), 1, <<>>, <<>>)

RECURSIVE ParseDocLines_dedup(_, _, _, _)
\* ParseDocLines keeping only the first pair of a parameter name
ParseDocLines_dedup(ls, i, desc, ps) ==
    IF i > Len(ls) THEN <<Trim(desc), ps>>
    ELSE LET cap == Captures(ls[i])
         IN  IF cap # <<>>
             THEN ParseDocLines_dedup(ls, i + 1, desc,
                      IF \E k \in 1..Len(ps) : ps[k][1] = cap[1] THEN ps
                      ELSE Append(ps, <<cap[1], <<>>, cap[2]>>))
             ELSE ParseDocLines_dedup(ls, i + 1, desc \o ls[i] \o <<NL>>, ps)

parse_doc_comment_dedup(dc) == ParseDocLines_dedup(Lines(dc), 1, <<>>, <<>>)

parse_doc_comment(dc) == ParseDocLines(Lines(dc), 1, <<>>, <<>>)

-----------------------------------------------------------------------------
(* parser.rs: parse_noir_file on a syn::File *)

\* A top-level item is [kind, ...]: "Struct" [ident, named, fields],
\* "Trait" [ident, methods], "Fn" [attrs, sig], "Impl" [self_ty, methods],
\* "Other"; methods are [attrs, sig].

parse_struct(s) ==
    [name |-> s.ident,
     fields |-> IF s.named
                THEN [k \in 1..Len(s.fields) |->
                        [name |-> s.fields[k].ident,
                         ty |-> type_to_string(s.fields[k].ty)]]
                ELSE <<>>]

parse_trait(t) ==
    [name |-> t.ident,
     methods |-> [k \in 1..Len(t.methods) |-> parse_trait_method(t.methods[k])]]

parse_impl(i) ==
    [target |-> type_to_string(i.self_ty),
     methods |-> [k \in 1..Len(i.methods) |-> parse_impl_method(i.methods[k])]]

RECURSIVE ItemsOfKind(_, _)
ItemsOfKind(items, kind) ==
    IF items = <<>> THEN <<>>
    ELSE (IF Head(items).kind = kind THEN <<Head(items)>> ELSE <<>>)
         \o ItemsOfKind(Tail(items), kind)

\* the NoirFile built from the items of a file that parsed
NoirFileOf(file_name, items) ==
    LET ss == ItemsOfKind(items, "Struct")
        ts == ItemsOfKind(items, "Trait")
        fs == ItemsOfKind(items, "Fn")
        is == ItemsOfKind(items, "Impl")
    IN  [name |-> file_name,
         structs |-> [k \in 1..Len(ss) |-> parse_struct(ss[k])],
         traits |-> [k \in 1..Len(ts) |-> parse_trait(ts[k])],
         functions |-> [k \in 1..Len(fs) |-> parse_function(fs[k])],
         impls |-> [k \in 1..Len(is) |-> parse_impl(is[k])]]

-----------------------------------------------------------------------------
(* generator.rs: rendering of a NoirFile *)

Fence == <<BT,BT,BT,"r","u","s","t","\n">>
FenceEnd == <<"\n",BT,BT,BT,"\n","\n">>
Arrow == <<" ","-",">"," ">>

ReturnPart(f) == IF f.return_type = None THEN <<>> ELSE Arrow \o f.return_type[1]

DocPart(f) ==
    IF f.doc_comment = None THEN <<>> ELSE f.doc_comment[1] \o <<NL, NL>>

\* generate_file_content, one struct
StructContent(s) ==
    <<"#","#","#"," ">> \o s.name \o <<NL, NL>> \o <<"F","i","e","l","d","s",":","\n">>
    \o Flatten([k \in 1..Len(s.fields) |->
            <<"-"," ",BT>> \o s.fields[k].name \o <<BT,":"," ">> \o s.fields[k].ty \o <<NL>>])
    \o <<NL>>

\* generate_file_content, one trait method
TraitMethodContent(method) ==
    <<"#","#","#","#"," ",BT>> \o method.name \o <<BT,"\n","\n">> \o DocPart(method)
    \o Fence \o <<"f","n"," ">> \o method.name \o <<"(">> \o <<")","\n">>
    \o ReturnPart(method) \o FenceEnd

TraitContent(t) ==
    <<"#","#","#"," ">> \o t.name \o <<NL, NL>>
    \o Flatten([k \in 1..Len(t.methods) |-> TraitMethodContent(t.methods[k])])

\* generate_file_content, one free function
FunctionContent(function) ==
    <<"#","#","#"," ",BT>> \o function.name \o <<BT,"\n","\n">> \o DocPart(function)
    \o Fence \o <<"f","n"," ">> \o function.name \o <<"(">> \o <<")","\n">>
    \o ReturnPart(function) \o FenceEnd

\* FindParamType that never finds the parameter
FindParamType_unknown(ps, name) == <<"U","n","k","n","o","w","n">>

RECURSIVE FindParamType(_, _)
\* method.params.iter().find(|p| p.name == name), or "Unknown"
FindParamType(ps, name) ==
    IF ps = <<>> THEN <<"U","n","k","n","o","w","n">>
    ELSE IF Head(ps).name = name THEN Head(ps).ty
    ELSE FindParamType(Tail(ps), name)

ParamTable(method, tags) ==
    IF tags = <<>> THEN <<>>
    ELSE
    <<"|"," ","P","a","r","a","m","e","t","e","r"," ","|"," ","T","y","p",
      "e"," ","|"," ","D","e","s","c","r","i","p","t","i","o","n"," ","|",
      "\n">>
         \o
    <<"|","-","-","-","-","-","-","-","-","-","-","-","|","-","-","-","-",
      "-","-","|","-","-","-","-","-","-","-","-","-","-","-","-","-","|",
      "\n">>
         \o Flatten([k \in 1..Len(tags) |->
                <<"|"," ",BT>> \o tags[k][1] \o <<BT," ","|"," ",BT>>
                \o FindParamType(method.params, tags[k][1])
                \o <<BT," ","|"," ">> \o tags[k][3] \o <<" ","|","\n">>])
         \o <<NL>>

\* generate_file_content, one impl method
ImplMethodContent(method) ==
    <<"#","#","#","#"," ",BT>> \o method.name \o <<BT,"\n","\n">>
    \o (IF method.doc_comment = None THEN <<>>
         ELSE LET r == parse_doc_comment(method.doc_comment[1])
              IN  r[1] \o <<NL, NL>> \o ParamTable(method, r[2]))
    \o Fence \o <<"f","n"," ">> \o method.name \o <<"(">>
    \o Join([k \in 1..Len(method.params) |->
                method.params[k].name \o <<":"," ">> \o method.params[k].ty], <<","," ">>)
    \o <<")">> \o ReturnPart(method) \o FenceEnd

ImplContent(i) ==
    <<"#","#","#"," ","I","m","p","l"," ","f","o","r"," ">> \o i.target \o <<NL, NL>>
    \o Flatten([k \in 1..Len(i.methods) |-> ImplMethodContent(i.methods[k])])

generate_file_content(file) ==
    <<"#"," ">> \o file.name \o <<" ","M","o","d","u","l","e","\n","\n">>
    \o
    <<"T","h","i","s"," ","m","o","d","u","l","e"," ","c","o","n","t","a",
      "i","n","s"," ","t","h","e"," ","f","o","l","l","o","w","i","n","g",
      " ","c","o","m","p","o","n","e","n","t","s",":","\n","\n">>
    \o
    <<"#","#"," ","T","a","b","l","e"," ","o","f"," ","C","o","n","t","e",
      "n","t","s","\n">>
    \o (IF file.structs # <<>> THEN
    <<"-"," ","[","S","t","r","u","c","t","s","]","(","#","s","t","r","u",
      "c","t","s",")","\n">> ELSE <<>>)
    \o (IF file.traits # <<>> THEN
    <<"-"," ","[","T","r","a","i","t","s","]","(","#","t","r","a","i","t",
      "s",")","\n">> ELSE <<>>)
    \o (IF file.functions # <<>> THEN
    <<"-"," ","[","F","u","n","c","t","i","o","n","s","]","(","#","f","u",
      "n","c","t","i","o","n","s",")","\n">> ELSE <<>>)
    \o (IF file.impls # <<>> THEN
    <<"-"," ","[","I","m","p","l","e","m","e","n","t","a","t","i","o","n",
      "s","]","(","#","i","m","p","l","e","m","e","n","t","a","t","i","o",
      "n","s",")","\n">>
         ELSE <<>>)
    \o <<NL>>
    \o (IF file.structs # <<>>
         THEN <<"#","#"," ","S","t","r","u","c","t","s","\n","\n">>
              \o Flatten([k \in 1..Len(file.structs) |->
                            StructContent(file.structs[k])])
         ELSE <<>>)
    \o (IF file.traits # <<>>
         THEN <<"#","#"," ","T","r","a","i","t","s","\n","\n">>
              \o Flatten([k \in 1..Len(file.traits) |->
                            TraitContent(file.traits[k])])
         ELSE <<>>)
    \o (IF file.functions # <<>>
         THEN <<"#","#"," ","F","u","n","c","t","i","o","n","s","\n","\n">>
              \o Flatten([k \in 1..Len(file.functions) |->
                            FunctionContent(file.functions[k])])
         ELSE <<>>)
    \o (IF file.impls # <<>>
         THEN
    <<"#","#"," ","I","m","p","l","e","m","e","n","t","a","t","i","o","n",
      "s","\n","\n">>
              \o Flatten([k \in 1..Len(file.impls) |->
                            ImplContent(file.impls[k])])
         ELSE <<>>)

generate_file_doc(file) ==
    <<"#"," ">> \o file.name \o <<NL, NL>> \o generate_file_content(file)

\* a Library is [name, files]
generate_library_doc(library) ==
    <<"#"," ">> \o library.name \o <<" ","L","i","b","r","a","r","y","\n","\n">>
    \o (IF library.files # <<>> THEN generate_file_content(Head(library.files))
         ELSE <<>>)

LinkLine(name) == <<"-"," ","[">> \o name \o <<"]","(">> \o name \o <<")","\n">>

OverviewHeader ==

    <<"#"," ","A","z","t","e","c",".","n","r"," ","P","r","o","j","e","c",
      "t","\n","\n">>
    \o
    <<"W","e","l","c","o","m","e"," ","t","o"," ","t","h","e"," ","A","z",
      "t","e","c",".","n","r"," ","p","r","o","j","e","c","t"," ","d","o",
      "c","u","m","e","n","t","a","t","i","o","n","."," ","T","h","i","s",
      " ","p","r","o","j","e","c","t"," ","c","o","n","s","i","s","t","s",
      " ","o","f"," ","t","h","e"," ","f","o","l","l","o","w","i","n","g",
      " ","l","i","b","r","a","r","i","e","s",":","\n","\n">>

\* generate_main_overview that passes over the first key
generate_main_overview_skips_first(keys) ==
    OverviewHeader
    \o Flatten([k \in 1..Len(keys) |-> IF k = 1 THEN <<>> ELSE LinkLine(keys[k])])

\* generate_main_overview; keys is libraries.keys() in iteration order
generate_main_overview(keys) ==
    OverviewHeader \o Flatten([k \in 1..Len(keys) |-> LinkLine(keys[k])])

Md == <<".","m","d">>
OverviewPath == <<"a","z","t","e","c","-","n","r",".","m","d">>
OverviewId == <<"a","z","t","e","c","-","n","r">>
OverviewLabel == <<"A","z","t","e","c",".","n","r"," ","O","v","e","r","v","i","e","w">>

\* DocusaurusDoc and SidebarItem::Doc
Doc(content, path) == [content |-> content, path |-> path]
SidebarDoc(id, label) == [type |-> "Doc", id |-> id, label |-> label]

generate_aztec_overview(aztec_library) ==

    <<"#"," ","A","z","t","e","c"," ","L","i","b","r","a","r","y","\n",
      "\n">>
    \o
    <<"T","h","e"," ","A","z","t","e","c"," ","l","i","b","r","a","r","y",
      " ","i","s"," ","t","h","e"," ","c","o","r","e"," ","c","o","m","p",
      "o","n","e","n","t"," ","o","f"," ","t","h","e"," ","A","z","t","e",
      "c",".","n","r"," ","p","r","o","j","e","c","t","."," ","I","t"," ",
      "c","o","n","t","a","i","n","s"," ","t","h","e"," ","f","o","l","l",
      "o","w","i","n","g"," ","m","o","d","u","l","e","s",":","\n","\n">>
    \o Flatten([k \in 1..Len(aztec_library.files) |->
                    LinkLine(aztec_library.files[k].name)])

\* generate_aztec_docs: <<docs, sidebar_items>>
generate_aztec_docs(aztec_library) ==
    LET fs == aztec_library.files
        file_path(k) == <<"a","z","t","e","c","/">> \o fs[k].name \o Md
        index_md == <<"a","z","t","e","c","/","i","n","d","e","x",".","m","d">>
        index_id == <<"a","z","t","e","c","/","i","n","d","e","x">>
        index_label == <<"A","z","t","e","c"," ","O","v","e","r","v","i","e","w">>
    IN  << <<Doc(generate_aztec_overview(aztec_library), index_md)>>
           \o [k \in 1..Len(fs) |->
                  Doc(generate_file_doc(fs[k]), file_path(k))],
           <<SidebarDoc(index_id, index_label)>>
           \o [k \in 1..Len(fs) |->
                  SidebarDoc(file_path(k), fs[k].name)] >>

RECURSIVE Spaces(_)
Spaces(n) == IF n = 0 THEN <<>> ELSE <<SP>> \o Spaces(n - 1)

RECURSIVE format_sidebar_item(_, _)
format_sidebar_item(sidebar_item, indent) ==
    IF sidebar_item.type = "Category"
    THEN Spaces(indent) \o
    <<"{","t","y","p","e",":"," ","'","c","a","t","e","g","o","r","y","'",
      ","," ","l","a","b","e","l",":"," ","'">> \o sidebar_item.label
         \o <<"'",","," ","i","t","e","m","s",":"," ","[","\n">>
         \o Flatten([k \in 1..Len(sidebar_item.items) |->
                format_sidebar_item(sidebar_item.items[k], indent + 2)])
         \o Spaces(indent) \o <<"]","}",",","\n">>
    ELSE Spaces(indent) \o
    <<"{","t","y","p","e",":"," ","'","d","o","c","'",","," ","i","d",":",
      " ","'">> \o sidebar_item.id
         \o <<"'",","," ","l","a","b","e","l",":"," ","'">> \o sidebar_item.label
         \o <<"'","}",",","\n">>

generate_sidebar_js(sb) ==
    <<"m","o","d","u","l","e",".","e","x","p","o","r","t","s"," ","="," ",
      "{","\n"," "," ","s","o","m","e","S","i","d","e","b","a","r",":"," ",
      "[","\n">>
    \o Flatten([k \in 1..Len(sb) |-> format_sidebar_item(sb[k], 4)])
    \o <<" "," ","]",",","\n","}",";","\n">>

-----------------------------------------------------------------------------
(* Specification of parse_doc_comment over bounded doc comments *)

MaxDocPieces == 4

DocPieces == {AtParam, <<SP>>, <<"x">>, <<"-">>, <<NL>>, <<CR>>}

RECURSIVE SeqsUpTo(_, _)
\* the sequences over S of length at most n
SeqsUpTo(S, n) ==
    IF n = 0 THEN {<<>>}
    ELSE LET shorter == SeqsUpTo(S, n - 1)
         IN  shorter \cup {Append(q, e) : q \in shorter, e \in S}

MaxDocLines == 3

\* lines with and without a match of param_regex
DocLines ==
    {<<"@","p","a","r","a","m"," ","x"," ","d","o","e","s"," ","a"," ",
       "t","h","i","n","g">>,
     <<"@","p","a","r","a","m","\t","k","e","y","_","1"," "," ","v"," ">>,
     <<"@","p","a","r","a","m"," ","x">>,
     <<"@","p","a","r","a","m"," ","x"," "," ">>,
     <<"s","e","e"," ","@","p","a","r","a","m"," ","x"," ","t","h","e",
       "r","e">>,
     <<"@","p","a","r","a","m"," ","x","-","y"," ","z">>,
     <<"@","p","a","r","a","m","x"," ","y"," ","z">>,
     <<"@","p","a","r","a","m"," ","@","p","a","r","a","m"," ","x"," ","y">>,
     <<"a","d","d","s">>,
     <<>>}

\* texts of at most MaxDocLines lines of DocLines with one kind of terminator
LineComments ==
    {Join(ls, sep) : ls \in SeqsUpTo(DocLines, MaxDocLines),
                     sep \in {<<NL>>, <<CR, NL>>}}

DocComments ==
    {Flatten(ps) : ps \in SeqsUpTo(DocPieces, MaxDocPieces)} \cup LineComments

\* the parse_doc_comment variables when another specification runs
DocIdle ==
    /\ doc_comment = <<>>
    /\ dc_pc = "idle"
    /\ description = <<>>
    /\ params = <<>>

\* the parser variables when another specification runs
ParseIdle ==
    /\ item = None
    /\ parsed = None

\* the driver variables when another specification runs
DriverIdle ==
    /\ dir = <<>>
    /\ pc = "idle"
    /\ run = 0
    /\ entry_i = 0
    /\ libraries = <<>>
    /\ iter_order = <<>>
    /\ lib_i = 0
    /\ docs = <<>>
    /\ sidebar = <<>>
    /\ first_run = None
    /\ disk = <<>>
    /\ write_i = 0
    /\ write_log = <<>>
    /\ write_failed = -1
    /\ status = "idle"
    /\ failures = {}
    /\ reported = {}

\* the generate_aztec_docs variables when another specification runs
AztecIdle ==
    /\ aztec_arg = None
    /\ aztec_out = None

\* the generate_file_content variables when another specification runs
ContentIdle ==
    /\ file_arg = None
    /\ content_out = None

InitDoc ==
    /\ doc_comment \in DocComments
    /\ dc_pc = "input"
    /\ description = <<>>
    /\ params = <<>>
    /\ ParseIdle
    /\ DriverIdle
    /\ AztecIdle
    /\ ContentIdle

ParseDocComment ==
    /\ dc_pc = "input"
    /\ description' = parse_doc_comment(doc_comment)[1]
    /\ params' = parse_doc_comment(doc_comment)[2]
    /\ dc_pc' = "done"
    /\ UNCHANGED <<doc_comment, psVars, genVars, writeVars, drVars, azVars, gcVars>>

NextDoc == ParseDocComment

SpecDoc == InitDoc /\ [][NextDoc]_vars

-----------------------------------------------------------------------------
(* Specification of the parse_* functions over bounded syn items *)

MaxAttrs == 2

DocPath == <<"d","o","c">>
FieldTy == <<<<"F","i","e","l","d">>>>
RefMutTy == <<<<"&">>, <<"m","u","t">>, <<"C","t","x">>>>

\* /// sum     /// unconstrained     #[doc(hidden)]     #[unconstrained]
\* #[test]     (a "///" comment is the attribute #[doc = " text"])
ItemAttrs ==
    {[path |-> DocPath, kind |-> "NameValueStr", value |-> <<" ","s","u","m"," ">>],
     [path |-> DocPath, kind |-> "NameValueStr", value |-> <<" ","u","n","c","o","n","s","t","r","a","i","n","e","d">>],
     [path |-> DocPath, kind |-> "List", value |-> <<"h","i","d","d","e","n">>],
     [path |-> Unconstrained, kind |-> "Path", value |-> <<>>],
     [path |-> <<"t","e","s","t">>, kind |-> "Path", value |-> <<>>]}

SelfArg == [typed |-> FALSE, pat |-> <<<<"s","e","l","f">>>>, ty |-> <<<<"S","e","l","f">>>>]
TypedArg(n, ty) == [typed |-> TRUE, pat |-> <<n>>, ty |-> ty]

ItemInputs ==
    {<<>>,
     <<SelfArg, TypedArg(<<"x">>, FieldTy)>>,
     <<TypedArg(<<"x">>, FieldTy), TypedArg(<<"c">>, RefMutTy)>>}

ItemSigs ==
    [ident : {<<"f">>},
     constness : BOOLEAN,
     inputs : ItemInputs,
     output : {None, Some(FieldTy)},
     generics : {<<>>}]

Items ==
    [kind : {"Fn", "TraitMethod", "ImplMethod"},
     attrs : SeqsUpTo(ItemAttrs, MaxAttrs),
     sig : ItemSigs]

InitParse ==
    /\ item \in {Some(i) : i \in Items}
    /\ parsed = None
    /\ DocIdle
    /\ DriverIdle
    /\ AztecIdle
    /\ ContentIdle

\* parse_noir_file, Item::Fn
ParseFunction ==
    /\ item # None /\ parsed = None
    /\ item[1].kind = "Fn"
    /\ parsed' = Some(parse_function(item[1]))
    /\ UNCHANGED <<item, dcVars, genVars, writeVars, drVars, azVars, gcVars>>

\* parse_trait, TraitItem::Method
ParseTraitMethod ==
    /\ item # None /\ parsed = None
    /\ item[1].kind = "TraitMethod"
    /\ parsed' = Some(parse_trait_method(item[1]))
    /\ UNCHANGED <<item, dcVars, genVars, writeVars, drVars, azVars, gcVars>>

\* parse_impl, ImplItem::Method
ParseImplMethod ==
    /\ item # None /\ parsed = None
    /\ item[1].kind = "ImplMethod"
    /\ parsed' = Some(parse_impl_method(item[1]))
    /\ UNCHANGED <<item, dcVars, genVars, writeVars, drVars, azVars, gcVars>>

NextParse == ParseFunction \/ ParseTraitMethod \/ ParseImplMethod

SpecParse == InitParse /\ [][NextParse]_vars

-----------------------------------------------------------------------------
(* std::path and the HashMap of generate_docusaurus_docs *)

RECURSIVE LastDot(_, _)
\* position of the last "." of s at or before i, 0 when there is none
LastDot(s, i) ==
    IF i = 0 THEN 0 ELSE IF s[i] = "." THEN i ELSE LastDot(s, i - 1)

\* Path::extension of a file name: the part after the last ".", None when
\* the name has no "." or only a leading one
extension(file_name) ==
    LET d == LastDot(file_name, Len(file_name))
    IN  IF d <= 1 THEN None ELSE Some(SubSeq(file_name, d + 1, Len(file_name)))

\* Path::file_stem of a file name: the part before the last "."
file_stem(file_name) ==
    LET d == LastDot(file_name, Len(file_name))
    IN  IF d <= 1 THEN file_name ELSE SubSeq(file_name, 1, d - 1)

\* HashMap::insert
Insert(map, key, value) ==
    [k \in (DOMAIN map) \cup {key} |-> IF k = key THEN value ELSE map[k]]

\* the orders in which a set of keys can be enumerated
Perms(S) ==
    {q \in SeqsUpTo(S, Cardinality(S)) :
        Len(q) = Cardinality(S) /\ \A x \in S : \E k \in 1..Len(q) : q[k] = x}

-----------------------------------------------------------------------------
(* Specification of the driver: main, generate_docusaurus_docs and          *)
(* write_docusaurus_docs on a bounded input directory                       *)

MaxFiles == 3

NrExt == <<"n","r">>

DocFn(text, name, out) ==
    [kind |-> "Fn",
     attrs |-> <<[path |-> DocPath, kind |-> "NameValueStr", value |-> text]>>,
     sig |-> [ident |-> name, constness |-> FALSE, inputs |-> <<>>,
              output |-> out, generics |-> <<>>]]

\* /// Adds.
\* /// @param x the amount
\* fn add(self, x: Field)
AddMethod ==
    [attrs |-> <<[path |-> DocPath, kind |-> "NameValueStr", value |-> <<" ","A","d","d","s",".">>],
                 [path |-> DocPath, kind |-> "NameValueStr",
                  value |-> 
    <<" ","@","p","a","r","a","m"," ","x"," ","t","h","e"," ","a","m","o",
      "u","n","t">>]>>,
     sig |-> [ident |-> <<"a","d","d">>, constness |-> FALSE,
              inputs |-> <<SelfArg, TypedArg(<<"x">>, FieldTy)>>,
              output |-> None, generics |-> <<>>]]

\* what syn::parse_file makes of the text of each file of the model
FileItems(file_name) ==
    CASE file_name = <<"a",".","n","r">> ->
            <<DocFn(<<" ","D","o","e","s"," ","n","o","t","h","i","n","g">>, <<"b","a","r">>, Some(FieldTy)), [kind |-> "Other"]>>
      [] file_name = <<"b",".","n","r">> ->
            <<[kind |-> "Impl", self_ty |-> <<<<"A","c","c">>>>, methods |-> <<AddMethod>>]>>
      [] file_name = <<"a","z","t","e","c","-","n","r",".","n","r">> ->
            <<[kind |-> "Struct", ident |-> <<"F","o","o">>, named |-> TRUE,
               fields |-> <<[ident |-> <<"a">>, ty |-> FieldTy]>>]>>
      [] OTHER -> <<>>

FileNames == {<<"a",".","n","r">>, <<"b",".","n","r">>, <<"a","z","t","e","c","-","n","r",".","n","r">>, <<"a",".","m","d">>}

\* A directory entry: is_file (false: a sub-directory), readable
\* (read_to_string returns Ok), marker (the text contains
\* "// typedoc: true"), syntax_ok (parse_file returns Ok).
Entries ==
    {[file_name |-> n, is_file |-> f, readable |-> r, marker |-> m, syntax_ok |-> s] :
        n \in FileNames,
        <<f, r, m, s>> \in {<<FALSE, FALSE, FALSE, FALSE>>,
                            <<TRUE, FALSE, TRUE, TRUE>>,
                            <<TRUE, TRUE, FALSE, TRUE>>,
                            <<TRUE, TRUE, TRUE, FALSE>>,
                            <<TRUE, TRUE, TRUE, TRUE>>}}

\* the entries of a directory have pairwise distinct file names
Directories ==
    {d \in SeqsUpTo(Entries, MaxFiles) :
        \A i, j \in 1..Len(d) : i # j => d[i].file_name # d[j].file_name}

\* parse_noir_file: Ok(NoirFile) as Some, Err as None
parse_noir_file(entry) ==
    IF entry.readable /\ entry.syntax_ok
    THEN Some(NoirFileOf(file_stem(entry.file_name), FileItems(entry.file_name)))
    ELSE None

\* the two conditions of lines 51-53
IsCandidate(entry) == entry.is_file /\ extension(entry.file_name) = Some(NrExt)
IsEligible(entry) == IsCandidate(entry) /\ entry.readable /\ entry.marker

Failure(kind, what) == [kind |-> kind, what |-> what]

Init ==
    /\ dir \in Directories
    /\ pc = "main"
    /\ run = 1
    /\ entry_i = 0
    /\ libraries = <<>>
    /\ iter_order = <<>>
    /\ lib_i = 0
    /\ docs = <<>>
    /\ sidebar = <<>>
    /\ first_run = None
    /\ disk = <<>>
    /\ write_i = 0
    /\ write_log = <<>>
    /\ write_failed = -1
    /\ status = "running"
    /\ failures = {}
    /\ reported = {}
    /\ AztecIdle
    /\ ContentIdle
    /\ DocIdle
    /\ ParseIdle

\* generate_docusaurus_docs is entered: lines 44-45
EnterGenerate ==
    /\ entry_i' = 1
    /\ libraries' = <<>>
    /\ iter_order' = <<>>
    /\ lib_i' = 0
    /\ docs' = <<>>
    /\ sidebar' = <<>>

\* main, lines 98-104: the test file parses and generate_docusaurus_docs is
\* called
MainParseOk ==
    /\ pc = "main"
    /\ pc' = "read_dir"
    /\ EnterGenerate
    /\ UNCHANGED <<dir, run, first_run, status, failures, reported,
                   writeVars, dcVars, psVars, azVars, gcVars>>

\* main, line 112: parse_noir_file returns Err, main prints it and returns
\* Ok(())
MainParseErr ==
    /\ pc = "main"
    /\ pc' = "exit"
    /\ status' = "success"
    /\ failures' = failures \cup {Failure("parse", <<"t","e","s","t","_","n","o","i","r","_","f","i","l","e",".","n","r">>)}
    /\ reported' = reported \cup {Failure("parse", <<"t","e","s","t","_","n","o","i","r","_","f","i","l","e",".","n","r">>)}
    /\ UNCHANGED <<dir, run, first_run, genVars, writeVars, dcVars, psVars, azVars, gcVars>>

\* lines 48-60, an entry that fails one of the three conditions; an entry
\* whose read_to_string fails is passed over by "if let Ok(content)"
SkipEntry ==
    /\ pc = "read_dir" /\ entry_i <= Len(dir)
    /\ ~IsEligible(dir[entry_i])
    /\ failures' = IF IsCandidate(dir[entry_i]) /\ ~dir[entry_i].readable
                   THEN failures \cup {Failure("read", dir[entry_i].file_name)}
                   ELSE failures
    /\ entry_i' = entry_i + 1
    /\ UNCHANGED <<dir, pc, run, first_run, status, reported, libraries,
                   iter_order, lib_i, docs, sidebar, writeVars, dcVars, psVars, azVars, gcVars>>

\* lines 54-56, an eligible entry that parses
InsertLibrary ==
    /\ pc = "read_dir" /\ entry_i <= Len(dir)
    /\ IsEligible(dir[entry_i])
    /\ parse_noir_file(dir[entry_i]) # None
    /\ LET file_name == file_stem(dir[entry_i].file_name)
           noir_file == parse_noir_file(dir[entry_i])[1]
       IN  libraries' = Insert(libraries, file_name,
                               [name |-> file_name, files |-> <<noir_file>>])
    /\ entry_i' = entry_i + 1
    /\ UNCHANGED <<dir, pc, run, first_run, status, failures, reported,
                   iter_order, lib_i, docs, sidebar, writeVars, dcVars, psVars, azVars, gcVars>>

\* line 55, parse_noir_file(..).unwrap() on Err: the thread panics, the
\* message goes to stderr and the process ends with status 101
ParsePanic ==
    /\ pc = "read_dir" /\ entry_i <= Len(dir)
    /\ IsEligible(dir[entry_i])
    /\ parse_noir_file(dir[entry_i]) = None
    /\ pc' = "exit"
    /\ status' = "panic"
    /\ failures' = failures \cup {Failure("parse", dir[entry_i].file_name)}
    /\ reported' = reported \cup {Failure("parse", dir[entry_i].file_name)}
    /\ UNCHANGED <<dir, run, first_run, genVars, writeVars, dcVars, psVars, azVars, gcVars>>

\* lines 62-71: the overview document and its sidebar entry; the HashMap
\* (RandomState) fixes the order in which keys() and the loop of line 74
\* visit it
GenerateOverview ==
    /\ pc = "read_dir" /\ entry_i > Len(dir)
    /\ \E order \in Perms(DOMAIN libraries) :
          /\ iter_order' = order
          /\ docs' = Append(docs, Doc(generate_main_overview(order), OverviewPath))
    /\ sidebar' = <<SidebarDoc(OverviewId, OverviewLabel)>>
    /\ lib_i' = 1
    /\ pc' = "libraries"
    /\ UNCHANGED <<dir, run, first_run, status, failures, reported, entry_i,
                   libraries, writeVars, dcVars, psVars, azVars, gcVars>>

\* lines 74-83 with the sidebar entry put right behind the overview entry
GenerateLibrary_sidebar_insert ==
    /\ pc = "libraries" /\ lib_i <= Len(iter_order)
    /\ LET name == iter_order[lib_i]
       IN  /\ docs' = Append(docs, Doc(generate_library_doc(libraries[name]),
                                       name \o Md))
           /\ sidebar' = <<Head(sidebar), SidebarDoc(name, name)>> \o Tail(sidebar)
    /\ lib_i' = lib_i + 1
    /\ UNCHANGED <<dir, pc, run, first_run, status, failures, reported, entry_i,
                   libraries, iter_order, writeVars, dcVars, psVars, azVars, gcVars>>

\* lines 74-83, one iteration
GenerateLibrary ==
    /\ pc = "libraries" /\ lib_i <= Len(iter_order)
    /\ LET name == iter_order[lib_i]
       IN  /\ docs' = Append(docs, Doc(generate_library_doc(libraries[name]),
                                       name \o Md))
           /\ sidebar' = Append(sidebar, SidebarDoc(name, name))
    /\ lib_i' = lib_i + 1
    /\ UNCHANGED <<dir, pc, run, first_run, status, failures, reported, entry_i,
                   libraries, iter_order, writeVars, dcVars, psVars, azVars, gcVars>>

\* line 85
Return ==
    /\ pc = "libraries" /\ lib_i > Len(iter_order)
    /\ pc' = "generated"
    /\ UNCHANGED <<dir, run, first_run, status, failures, reported, genVars,
                   writeVars, dcVars, psVars, azVars, gcVars>>

\* generate_docusaurus_docs is called a second time on the same directory
CallAgain ==
    /\ pc = "generated" /\ run = 1
    /\ first_run' = Some(<<docs, sidebar>>)
    /\ run' = 2
    /\ pc' = "read_dir"
    /\ EnterGenerate
    /\ UNCHANGED <<dir, status, failures, reported, writeVars, dcVars, psVars, azVars, gcVars>>

DocsDir == <<"d","o","c","s","/">>
SidebarPath == <<"s","i","d","e","b","a","r","s",".","j","s">>

\* docs_dir.join(doc.path), relative to output_dir
DiskPath(doc) == DocsDir \o doc.path

\* main, lines 108-117, without regard to the result of the write
ExitStatusOfWrite_ignored(ok) == "success"

\* main, lines 108-117, when the write returned Ok (TRUE) or Err (FALSE):
\* "?" returns the Err from main, which ends the process with status 1
ExitStatusOfWrite(ok) == IF ok THEN "success" ELSE "failure"

\* a write step returns Err and write_docusaurus_docs returns it to main
WriteErr(step, path) ==
    /\ write_failed' = step
    /\ pc' = "exit"
    /\ status' = ExitStatusOfWrite(FALSE)
    /\ failures' = failures \cup {Failure("write", path)}
    /\ reported' = IF ExitStatusOfWrite(FALSE) = "failure"
                   THEN reported \cup {Failure("write", path)}
                   ELSE reported

\* lines 288-289, create_dir_all(docs_dir) returns Ok
CreateDocsDirOk ==
    /\ pc = "generated"
    /\ pc' = "write_docs"
    /\ write_i' = 1
    /\ UNCHANGED <<dir, run, first_run, status, failures, reported, genVars,
                   disk, write_log, write_failed, dcVars, psVars, azVars, gcVars>>

\* line 289, create_dir_all(docs_dir) returns Err
CreateDocsDirFail ==
    /\ pc = "generated"
    /\ WriteErr(0, DocsDir)
    /\ UNCHANGED <<dir, run, first_run, genVars, disk, write_i, write_log,
                   dcVars, psVars, azVars, gcVars>>

\* lines 291-297, one iteration in which both calls return Ok
WriteDocOk ==
    /\ pc = "write_docs" /\ write_i <= Len(docs)
    /\ disk' = Insert(disk, DiskPath(docs[write_i]), docs[write_i].content)
    /\ write_log' = Append(write_log, write_i)
    /\ write_i' = write_i + 1
    /\ UNCHANGED <<dir, pc, run, first_run, status, failures, reported, genVars,
                   write_failed, dcVars, psVars, azVars, gcVars>>

\* lines 294 and 296, create_dir_all(parent) or fs::write returns Err; a
\* failed fs::write may have created or truncated the file
WriteDocFail ==
    /\ pc = "write_docs" /\ write_i <= Len(docs)
    /\ \E truncated \in BOOLEAN :
          disk' = IF truncated THEN Insert(disk, DiskPath(docs[write_i]), <<>>)
                  ELSE disk
    /\ WriteErr(write_i, DiskPath(docs[write_i]))
    /\ UNCHANGED <<dir, run, first_run, genVars, write_i, write_log,
                   dcVars, psVars, azVars, gcVars>>

\* lines 299-304 and main 110-117, fs::write of the sidebar returns Ok
WriteSidebarOk ==
    /\ pc = "write_docs" /\ write_i > Len(docs)
    /\ disk' = Insert(disk, SidebarPath, generate_sidebar_js(sidebar))
    /\ write_log' = Append(write_log, write_i)
    /\ pc' = "exit"
    /\ status' = ExitStatusOfWrite(TRUE)
    /\ UNCHANGED <<dir, run, first_run, failures, reported, genVars, write_i,
                   write_failed, dcVars, psVars, azVars, gcVars>>

\* line 302, fs::write of the sidebar returns Err
WriteSidebarFail ==
    /\ pc = "write_docs" /\ write_i > Len(docs)
    /\ \E truncated \in BOOLEAN :
          disk' = IF truncated THEN Insert(disk, SidebarPath, <<>>) ELSE disk
    /\ WriteErr(write_i, SidebarPath)
    /\ UNCHANGED <<dir, run, first_run, genVars, write_i, write_log,
                   dcVars, psVars, azVars, gcVars>>

Next ==
    \/ MainParseOk
    \/ MainParseErr
    \/ SkipEntry
    \/ InsertLibrary
    \/ ParsePanic
    \/ GenerateOverview
    \/ GenerateLibrary
    \/ Return
    \/ CallAgain
    \/ CreateDocsDirOk
    \/ CreateDocsDirFail
    \/ WriteDocOk
    \/ WriteDocFail
    \/ WriteSidebarOk
    \/ WriteSidebarFail

Spec == Init /\ [][Next]_vars

-----------------------------------------------------------------------------
(* Specification of generate_aztec_docs over bounded libraries *)

MaxAztecFiles == 2

AztecFiles ==
    {NoirFileOf(n, FileItems(f)) : n \in {<<"a">>, <<"b">>, <<"f","o","o">>}, f \in FileNames}

InitAztec ==
    /\ aztec_arg \in
          {Some([name |-> <<"a","z","t","e","c">>, files |-> fs]) :
              fs \in SeqsUpTo(AztecFiles, MaxAztecFiles)}
    /\ aztec_out = None
    /\ DocIdle
    /\ ParseIdle
    /\ DriverIdle
    /\ ContentIdle

GenerateAztecDocs ==
    /\ aztec_arg # None /\ aztec_out = None
    /\ aztec_out' = Some(generate_aztec_docs(aztec_arg[1]))
    /\ UNCHANGED <<aztec_arg, dcVars, psVars, genVars, writeVars, drVars, gcVars>>

NextAztec == GenerateAztecDocs

SpecAztec == InitAztec /\ [][NextAztec]_vars

-----------------------------------------------------------------------------
(* Specification of generate_file_content over files of one item *)

MaxDocAttrs == 2

\* /// Adds.    /// @param x the amount    /// @param x again
\* /// @param n how many
DocTexts ==
    {<<" ","A","d","d","s",".">>,
     
    <<" ","@","p","a","r","a","m"," ","x"," ","t","h","e"," ","a","m","o",
      "u","n","t">>,
     <<" ","@","p","a","r","a","m"," ","x"," ","a","g","a","i","n">>,
     
    <<" ","@","p","a","r","a","m"," ","n"," ","h","o","w"," ","m","a","n",
      "y">>}

DocAttr(text) == [path |-> DocPath, kind |-> "NameValueStr", value |-> text]

MethodAttrs ==
    {[k \in 1..Len(ts) |-> DocAttr(ts[k])] : ts \in SeqsUpTo(DocTexts, MaxDocAttrs)}

\* ()    (self, x: Field)    (x: Field, c: &mut Ctx)    (mut n: Field)
MethodInputs ==
    ItemInputs
    \cup {<<[typed |-> TRUE, pat |-> <<<<"m","u","t">>, <<"n">>>>, ty |-> FieldTy]>>}

\* fn add(..) [-> Field]
Methods ==
    [attrs : MethodAttrs,
     sig : [ident : {<<"a","d","d">>},
            constness : {FALSE},
            inputs : MethodInputs,
            output : {None, Some(FieldTy)},
            generics : {<<>>}]]

\* trait T { m }        fn m        impl Acc { m }
ContentItems ==
    {[kind |-> "Trait", ident |-> <<"T">>, methods |-> <<m>>] : m \in Methods}
    \cup {[kind |-> "Fn", attrs |-> m.attrs, sig |-> m.sig] : m \in Methods}
    \cup {[kind |-> "Impl", self_ty |-> <<<<"A","c","c">>>>, methods |-> <<m>>] :
             m \in Methods}

InitContent ==
    /\ file_arg \in {Some(NoirFileOf(<<"l","i","b">>, <<it>>)) : it \in ContentItems}
    /\ content_out = None
    /\ DocIdle
    /\ ParseIdle
    /\ DriverIdle
    /\ AztecIdle

GenerateFileContent ==
    /\ file_arg # None /\ content_out = None
    /\ content_out' = Some(generate_file_content(file_arg[1]))
    /\ UNCHANGED <<file_arg, dcVars, psVars, genVars, writeVars, drVars, azVars>>

NextContent == GenerateFileContent

SpecContent == InitContent /\ [][NextContent]_vars

-----------------------------------------------------------------------------
(* Properties of the driver *)

\* a logical path with its ".md" extension removed
WithoutMd(path) ==
    IF Len(path) >= Len(Md) /\ HasAt(path, Len(path) - Len(Md) + 1, Md)
    THEN SubSeq(path, 1, Len(path) - Len(Md)) ELSE path

\* the names of the units of the run: the files of the directory with the
\* extension nr that can be read, carry the marker and parse
Units ==
    {file_stem(dir[k].file_name) :
        k \in {j \in 1..Len(dir) :
                 /\ dir[j].is_file
                 /\ extension(dir[j].file_name) = Some(NrExt)
                 /\ dir[j].readable /\ dir[j].marker /\ dir[j].syntax_ok}}

\* C1 as stated: a second call of generate_docusaurus_docs on the unchanged
\* directory returns the same documents (paths, contents, order) and the
\* same sidebar as the first call.
C1_SecondRunIdentical ==
    (pc = "generated" /\ run = 2) => first_run = Some(<<docs, sidebar>>)

\* C2: the returned sidebar has as many entries as there are documents, both
\* start with the overview, and the i-th entry refers to the i-th document.
C2_SidebarFollowsDocs ==
    pc = "generated" =>
        /\ Len(sidebar) = Len(docs)
        /\ Len(docs) >= 1
        /\ docs[1].path = OverviewPath
        /\ HasAt(docs[1].content, 1, OverviewHeader)
        /\ sidebar[1] = SidebarDoc(OverviewId, OverviewLabel)
        /\ \A i \in 1..Len(docs) :
              /\ sidebar[i].type = "Doc"
              /\ sidebar[i].id = WithoutMd(docs[i].path)
              /\ sidebar[i].id \o Md = docs[i].path

\* a run that returned the overview and two unit documents
C2_Witness ==
    /\ pc = "generated"
    /\ Len(docs) = 3
    /\ Len(sidebar) = 3
    /\ sidebar[2].id # sidebar[3].id

\* the documents of the unit called name
UnitDocs(name) ==
    {i \in 1..Len(docs) :
        /\ docs[i].path = name \o Md
        /\ HasAt(docs[i].content, 1, <<"#"," ">> \o name \o <<" ","L","i","b","r","a","r","y","\n","\n">>)}

\* the lines of the overview that link the unit called name: the positions
\* at which a line starts and reads "- [name](name)"
LinkLines(name) ==
    {k \in 1..Len(docs[1].content) :
        /\ (k = 1 \/ docs[1].content[k - 1] = NL)
        /\ HasAt(docs[1].content, k,
                 <<"-"," ","[">> \o name \o <<"]","(">> \o name \o <<")","\n">>)}

\* C3: a run returns exactly one overview document, which holds one link
\* line for every unit, and exactly one document for each unit, so the
\* number of documents is the number of units plus one.
C3_OneDocumentPerUnit ==
    pc = "generated" =>
        /\ Len(docs) = Cardinality(Units) + 1
        /\ {i \in 1..Len(docs) : HasAt(docs[i].content, 1, OverviewHeader)} = {1}
        /\ \A name \in Units :
              /\ Cardinality(LinkLines(name)) = 1
              /\ Cardinality(UnitDocs(name)) = 1

\* a run over two units, next to a file that is passed over
C3_Witness ==
    /\ pc = "generated"
    /\ Len(dir) = 3
    /\ Cardinality(Units) = 2
    /\ Cardinality(LinkLines(iter_order[2])) = 1
    /\ Len(docs) = 3

\* C4 as stated: the logical paths of the returned documents are pairwise
\* distinct, so no write of the run replaces a document of the same run.
C4_PathsDistinct ==
    pc \in {"generated", "write_docs"} =>
        \A i, j \in 1..Len(docs) : i # j => docs[i].path # docs[j].path

\* every DocEntry of sb has the id of a document of ds, less ".md"
IdsMatchPaths(ds, sb) ==
    \A i \in 1..Len(sb) :
        sb[i].type = "Doc" =>
            \E j \in 1..Len(ds) : sb[i].id = WithoutMd(ds[j].path)

\* C5 as stated: every DocEntry built by generate_docusaurus_docs or by
\* generate_aztec_docs has the id of a document of the same call, less its
\* ".md" extension.
C5_IdsMatchPaths ==
    /\ pc = "generated" => IdsMatchPaths(docs, sidebar)
    /\ aztec_out # None => IdsMatchPaths(aztec_out[1][1], aztec_out[1][2])

\* the documents written before step k whose file no later step up to k
\* touched
KeptUntil(k) ==
    {j \in 1..Len(docs) :
        /\ j < k
        /\ \A l \in (j + 1)..k :
              l <= Len(docs) => DiskPath(docs[l]) # DiskPath(docs[j])}

\* C6: when a step of write_docusaurus_docs fails, the steps before it are
\* the only ones that wrote, their documents are on disk, no later document
\* and no sidebar is written, and the process ends with a non-zero status.
C6_WriteFailureIsFatal ==
    write_failed >= 0 =>
        /\ pc = "exit"
        /\ status = "failure"
        /\ Failure("write", IF write_failed = 0 THEN DocsDir
                            ELSE IF write_failed <= Len(docs)
                                 THEN DiskPath(docs[write_failed])
                                 ELSE SidebarPath) \in reported
        /\ write_log = [k \in 1..(IF write_failed = 0 THEN 0
                                   ELSE write_failed - 1) |-> k]
        /\ \A j \in KeptUntil(write_failed) :
              /\ DiskPath(docs[j]) \in DOMAIN disk
              /\ disk[DiskPath(docs[j])] = docs[j].content
        /\ \A j \in 1..Len(docs) :
              (j > write_failed /\ DiskPath(docs[j]) \in DOMAIN disk)
                  => \E l \in 1..write_failed :
                        DiskPath(docs[l]) = DiskPath(docs[j])
        /\ SidebarPath \in DOMAIN disk => disk[SidebarPath] = <<>>

\* the write of the second of three documents failed
C6_Witness ==
    /\ write_failed = 2
    /\ Len(docs) = 3
    /\ write_log = <<1>>
    /\ pc = "exit"

\* C7 as stated: every failure of the run is reported and the run does not
\* end with a success status after a failure.
C7_FailuresSurfaced ==
    /\ failures \subseteq reported
    /\ (pc = "exit" /\ failures # {}) => status # "success"

-----------------------------------------------------------------------------
(* Properties of the parse_* functions *)

IsDocAttr(attr) == attr.path = DocPath

RECURSIVE RawDocValues(_)
\* the string values of the documentation attributes, in order
RawDocValues(attrs) ==
    IF attrs = <<>> THEN <<>>
    ELSE (IF IsDocAttr(Head(attrs)) /\ Head(attrs).kind = "NameValueStr"
          THEN <<Head(attrs).value>> ELSE <<>>) \o RawDocValues(Tail(attrs))

RECURSIVE NonDocRenderings(_)
\* the textual rendering of the non-documentation attributes, in order
NonDocRenderings(attrs) ==
    IF attrs = <<>> THEN <<>>
    ELSE (IF IsDocAttr(Head(attrs)) THEN <<>>
          ELSE <<AttrToString(Head(attrs))>>) \o NonDocRenderings(Tail(attrs))

\* C8 as stated: the doc comment of a function, trait method or impl method
\* is absent when the item has no documentation attribute, and otherwise is
\* the string values of its documentation attributes joined by newline and
\* trimmed.
C8_DocCommentAbsentOrJoined ==
    parsed # None =>
        parsed[1].doc_comment =
            IF \A k \in 1..Len(item[1].attrs) : ~IsDocAttr(item[1].attrs[k])
            THEN None
            ELSE Some(Trim(Join(RawDocValues(item[1].attrs), <<NL>>)))

\* C9 as stated: the attributes of a function, trait method or impl method are
\* the renderings of exactly its non-documentation attributes, in source
\* order, and a doc comment containing the marker word does not set
\* is_unconstrained.
C9_AttributesExcludeDocs ==
    parsed # None =>
        /\ parsed[1].attributes = NonDocRenderings(item[1].attrs)
        /\ parsed[1].is_unconstrained =
              (item[1].sig.constness
               \/ \E k \in 1..Len(NonDocRenderings(item[1].attrs)) :
                     Contains(NonDocRenderings(item[1].attrs)[k], Unconstrained))

-----------------------------------------------------------------------------
(* Properties of parse_doc_comment *)

\* no line of the text is a tag line "@param <identifier> <description-text>"
NoTagLine(dc) == \A k \in 1..Len(Lines(dc)) : Captures(Lines(dc)[k]) = <<>>

RECURSIVE ReplaceCRLF(_)
\* the text with every "\r\n" replaced by "\n"
ReplaceCRLF(s) ==
    IF s = <<>> THEN <<>>
    ELSE IF Len(s) >= 2 /\ s[1] = CR /\ s[2] = NL THEN ReplaceCRLF(Tail(s))
    ELSE <<Head(s)>> \o ReplaceCRLF(Tail(s))

\* C10 as stated: a doc comment without a tag line yields no parameters and a
\* description equal to the original text, trimmed.
C10_Original ==
    (dc_pc = "done" /\ NoTagLine(doc_comment))
        => (params = <<>> /\ description = Trim(doc_comment))

\* C10 amended: a doc comment without a tag line yields no parameters and a
\* description equal to the original text with every "\r\n" line terminator
\* replaced by "\n", trimmed; it is the trimmed original text whenever the
\* text has no "\r\n".
C10_DescriptionIsTrimmedText ==
    (dc_pc = "done" /\ NoTagLine(doc_comment))
        => /\ params = <<>>
           /\ description = Trim(ReplaceCRLF(doc_comment))
           /\ (~Contains(doc_comment, <<CR, NL>>)
                   => description = Trim(doc_comment))

\* a parsed comment of several lines, none a tag line although one holds
\* "@param", with a "\r\n" inside
C10_Witness ==
    /\ dc_pc = "done"
    /\ NoTagLine(doc_comment)
    /\ Contains(doc_comment, AtParam)
    /\ Len(Lines(doc_comment)) >= 2
    /\ Contains(doc_comment, <<CR, NL>>)
    /\ Contains(description, <<NL>>)

\* the line "@param x does a thing" and its description text
ExampleTagLine ==
    <<"@","p","a","r","a","m"," ","x"," ","d","o","e","s"," ","a"," ",
      "t","h","i","n","g">>
ExampleText == <<"d","o","e","s"," ","a"," ","t","h","i","n","g">>

\* the characters a..b of s are a non-empty run of characters of class
IsRun(s, a, b, class) == a <= b /\ \A k \in a..b : s[k] \in class

\* <<b, c, d>> when line is "@param", whitespace, an identifier starting at
\* b, whitespace, and a description text starting at d with a character that
\* is not whitespace; there is at most one such triple
TagSplits(line) ==
    LET n == Len(line)
        Bs == {b \in 1..n : /\ HasAt(line, 1, AtParam)
                            /\ IsRun(line, Len(AtParam) + 1, b - 1, WhiteSpace)}
        Cs(b) == {c \in 1..n : IsRun(line, b, c - 1, WordChars)}
        Ds(c) == {d \in 1..n : /\ IsRun(line, c, d - 1, WhiteSpace)
                               /\ line[d] \notin WhiteSpace}
    IN  UNION {UNION {{<<b, c, d>> : d \in Ds(c)} : c \in Cs(b)} : b \in Bs}

\* line has the form "@param <identifier> <description-text>"
IsTagLine(line) == TagSplits(line) # {}

\* the pair (identifier, description-text) of a tag line
TagPair(line) ==
    LET s == CHOOSE t \in TagSplits(line) : TRUE
    IN  <<SubSeq(line, s[1], s[2] - 1), SubSeq(line, s[3], Len(line))>>

\* some substring of line is "@param", whitespace, word characters,
\* whitespace and one more character: param_regex has a match in line
HasTag(line) ==
    \E i \in 1..Len(line) :
        /\ HasAt(line, i, AtParam)
        /\ \E b \in 1..Len(line) :
              /\ IsRun(line, i + Len(AtParam), b - 1, WhiteSpace)
              /\ \E c \in 1..Len(line) :
                    /\ IsRun(line, b, c - 1, WordChars)
                    /\ \E d \in 1..Len(line) :
                          IsRun(line, c, d - 1, WhiteSpace)

\* the lines of dc that hold a tag
TagLines(dc) == {k \in 1..Len(Lines(dc)) : HasTag(Lines(dc)[k])}

\* C11: each line of the form "@param <identifier> <description-text>"
\* contributes exactly one pair (identifier, description-text): the result has
\* one pair per line holding a tag, in the order of the lines, the pair of a
\* line of that form is its identifier and its description text, repeated
\* names are all kept, and no line holding a tag is part of the description.
C11_OnePairPerTagLine ==
    dc_pc = "done" =>
        LET ls == Lines(doc_comment)
            K == TagLines(doc_comment)
            rank(k) == Cardinality({j \in K : j <= k})
        IN  /\ Len(params) = Cardinality(K)
            /\ \A k \in K :
                  /\ IsTagLine(ls[k]) =>
                        params[rank(k)] =
                            <<TagPair(ls[k])[1], <<>>, TagPair(ls[k])[2]>>
                  /\ ~Contains(description, ls[k])
            /\ \A k \in 1..Len(ls) :
                  ls[k] = ExampleTagLine
                      => /\ k \in K
                         /\ params[rank(k)] = <<<<"x">>, <<>>, ExampleText>>

\* a parsed comment with the line "@param x does a thing" twice and a line of
\* description: two equal pairs, and the description without the tag lines
C11_Witness ==
    /\ dc_pc = "done"
    /\ Len(Lines(doc_comment)) = 3
    /\ Cardinality(TagLines(doc_comment)) = 2
    /\ \A k \in TagLines(doc_comment) : IsTagLine(Lines(doc_comment)[k])
    /\ Len(params) = 2
    /\ params[1] = <<<<"x">>, <<>>, ExampleText>>
    /\ params[2] = params[1]
    /\ description = <<"a","d","d","s">>

-----------------------------------------------------------------------------
(* Properties of generate_file_content *)

\* the first position at or after from where c has t
FirstAt(c, t, from) ==
    CHOOSE i \in from..(Len(c) + 1) :
        /\ HasAt(c, i, t)
        /\ \A j \in from..(i - 1) : ~HasAt(c, j, t)

\* the text of the first fenced code block of c, between the opening fence
\* line and the closing fence
CodeBlock(c) ==
    LET open == FirstAt(c, Fence, 1) + Len(Fence)
    IN  SubSeq(c, open, FirstAt(c, <<BT, BT, BT>>, open) - 1)

\* the trait methods and the free functions of a NoirFile
SignatureOnly(f) ==
    Flatten([k \in 1..Len(f.traits) |-> f.traits[k].methods]) \o f.functions

\* fn <name>() [-> <return-type>]
BareSignature(f) ==
    <<"f","n"," ">> \o f.name \o <<"(",")">>
    \o (IF f.return_type = None THEN <<>> ELSE <<" ","-",">"," ">> \o f.return_type[1])

\* C12: for every trait method and every free function the fenced code block
\* contains "fn <name>()" followed, when a return type is declared, by
\* " -> <return-type>" as one signature, and contains no " -> " when no return
\* type is declared (the files here hold one method, hence one code block).
C12_SignatureInBlock ==
    content_out # None =>
        \A k \in 1..Len(SignatureOnly(file_arg[1])) :
            LET f == SignatureOnly(file_arg[1])[k]
                block == CodeBlock(content_out[1])
            IN  /\ Contains(block, BareSignature(f))
                /\ f.return_type = None => ~Contains(block, <<" ","-",">"," ">>)

\* the impl methods of a NoirFile
ImplMethods(f) == Flatten([k \in 1..Len(f.impls) |-> f.impls[k].methods])

\* the tag pairs extracted from the doc comment of a method
TagPairs(method) == parse_doc_comment(method.doc_comment[1])[2]

\* the declared types of the parameters of method called name
DeclaredTypes(method, name) ==
    {method.params[k].ty :
        k \in {j \in 1..Len(method.params) : method.params[j].name = name}}

TableHead == 
    <<"|"," ","P","a","r","a","m","e","t","e","r"," ","|"," ","T","y","p",
      "e"," ","|"," ","D","e","s","c","r","i","p","t","i","o","n"," ","|",
      "\n">>
TableRule == 
    <<"|","-","-","-","-","-","-","-","-","-","-","-","|","-","-","-","-",
      "-","-","|","-","-","-","-","-","-","-","-","-","-","-","-","-","|",
      "\n">>

\* the table rows a method should get: one per tag pair
ExpectedRows(method) ==
    LET tags == TagPairs(method)
        ty(name) == IF DeclaredTypes(method, name) = {}
                    THEN <<"U","n","k","n","o","w","n">>
                    ELSE CHOOSE t \in DeclaredTypes(method, name) : TRUE
    IN  [k \in 1..Len(tags) |->
            <<"|"," ",BT>> \o tags[k][1] \o <<BT," ","|"," ",BT>> \o ty(tags[k][1]) \o <<BT," ","|"," ">>
            \o tags[k][3] \o <<" ","|","\n">>]

\* fn <name>(<name: type>, ...) [-> <return-type>]
FullSignature(method) ==
    <<"f","n"," ">> \o method.name \o <<"(">>
    \o Join([k \in 1..Len(method.params) |->
                method.params[k].name \o <<":"," ">> \o method.params[k].ty], <<","," ">>)
    \o <<")">>
    \o (IF method.return_type = None THEN <<>>
         ELSE <<" ","-",">"," ">> \o method.return_type[1])

\* C13: for every impl method with a doc comment the parameter table is
\* emitted if and only if at least one tag pair was extracted; it has one row
\* per pair, in order, whose Type is the declared type of the parameter of
\* that name, or Unknown when there is none; the code block that follows
\* lists every declared parameter as "name: type", comma-joined, in order,
\* with the optional return type (the files here hold one method).
C13_ParameterTable ==
    content_out # None =>
        \A k \in 1..Len(ImplMethods(file_arg[1])) :
            LET method == ImplMethods(file_arg[1])[k]
                c == content_out[1]
            IN  method.doc_comment # None =>
                  /\ Contains(c, TableHead) <=> TagPairs(method) # <<>>
                  /\ TagPairs(method) # <<>> =>
                        Contains(c, <<NL, NL>> \o TableHead \o TableRule
                                    \o Flatten(ExpectedRows(method))
                                    \o <<NL>> \o Fence)
                  /\ CodeBlock(c) = FullSignature(method) \o <<NL>>

\* the row of "@param n how many" when no parameter is called n
UnknownRow ==
    <<"|"," ",BT,"n",BT," ","|"," ",BT,"U","n","k","n","o","w","n",BT," ",
      "|"," ","h","o","w"," ","m","a","n","y"," ","|","\n">>

\* the signature of fn add(x: Field, c: &mut Ctx) -> Field in the code block
AddSignature ==
    <<"f","n"," ","a","d","d","(","x",":"," ","F","i","e","l","d",","," ",
      "c",":"," ","&"," ","m","u","t"," ","C","t","x",")"," ","-",">"," ",
      "F","i","e","l","d">>

\* an impl method fn add(x: Field, c: &mut Ctx) -> Field rendered with two
\* rows, one of type Field for x and one Unknown for n
C13_Witness ==
    /\ content_out # None
    /\ Len(ImplMethods(file_arg[1])) = 1
    /\ LET method == ImplMethods(file_arg[1])[1]
       IN  /\ Len(method.params) = 2
           /\ method.return_type # None
           /\ Len(TagPairs(method)) = 2
           /\ TagPairs(method)[1][1] = <<"x">>
           /\ TagPairs(method)[2][1] = <<"n">>
           /\ DeclaredTypes(method, <<"x">>) = {<<"F","i","e","l","d">>}
           /\ DeclaredTypes(method, <<"n">>) = {}
    /\ Contains(content_out[1], UnknownRow \o <<NL>>)
    /\ Contains(content_out[1], AddSignature \o <<NL>>)

====
